---- MODULE Spec2Model ----
(***************************************************************************)
(* Model of mmfutils.math.bases: the CylindricalBasis with its             *)
(* exponential-operator cache (_K_data) and the CartesianBasis Coulomb     *)
(* convolution dispatch.                                                   *)
(*                                                                         *)
(* Number representation.                                                  *)
(*  - A factor is an integer number of 1e-9 (np.allclose's atol is then    *)
(*    10 and its rtol 1/100000).                                           *)
(*  - Axial momenta are integers in units of 2*pi/(Q*Lx), Q = 2, so that   *)
(*    a twist of pi is the integer 1.                                      *)
(*  - A number produced by the operators is a monomial a*exp(e): the       *)
(*    record [a |-> integer, e |-> integer]; products multiply a and add   *)
(*    e, so exp(0) = 1 and exp(u)*exp(v) = exp(u+v) hold exactly.          *)
(*  - A field is given by its coefficients on the basis that diagonalises  *)
(*    the kinetic operator: axial (twisted) Fourier mode i times radial    *)
(*    eigenvector j of _Kr_diag.  In these coordinates                     *)
(*    _r1*dot(V*f(d), V.T)*_r2 is the diagonal f(d), because _r2 = 1/_r1   *)
(*    and V is orthogonal.                                                 *)
(***************************************************************************)
EXTENDS Integers, Sequences, FiniteSets, TLC

VARIABLES
    cyl,        \* the CylindricalBasis instance (all its attributes)
    last,       \* the last call made: object, operation, arguments, outcome
    watch,      \* history of one factor: calls and misses since its last use
    cart,       \* the CartesianBasis instance (all its attributes)
    th,         \* per thread: position in apply_exp_K and its locals
    flags       \* which failures of unsynchronised use have happened

vars == <<cyl, last, watch, cart, th, flags>>

(***************************************************************************)
(* Bounds of the model.                                                    *)
(***************************************************************************)
MaxAmp == 2          \* field coefficients range over 1..MaxAmp
MaxCalls == 4        \* calls the threads make in all in the concurrent model
NThreads == 2        \* threads sharing one instance
MaxN == 4            \* point counts passed to get_xyz range over 1..MaxN

(***************************************************************************)
(* Program constants.                                                      *)
(***************************************************************************)
_K_data_max_len == 3
Atol == 10
RtolDen == 100000
Q == 2
Nx == 2
Nr == 2

\* the value of an operation: an array, or the exception it raised
Ret(shape, val) == [shape |-> shape, val |-> val, exc |-> ""]

Raise(exc) == [shape |-> <<>>, val |-> <<>>, exc |-> exc]

Abs(n) == IF n < 0 THEN -n ELSE n

Max(S) == CHOOSE m \in S : \A n \in S : n <= m

(* monomials a*exp(e) *)
Num(a, e) == IF a = 0 THEN [a |-> 0, e |-> 0] ELSE [a |-> a, e |-> e]

Exp(x) == Num(1, x)

Mul(p, q) == Num(p.a * q.a, p.e + q.e)

Scale(c, p) == Num(c * p.a, p.e)

(***************************************************************************)
(* utils.py                                                                *)
(***************************************************************************)
\* np.arange(-n/2, n/2) + offset, times l/n; in units of l/(2n)
get_xyz(n, symmetric_lattice) ==
    LET offset2 == IF symmetric_lattice THEN 1 ELSE 0
    IN  [i \in 1..n |-> (-n + 2 * (i - 1)) + offset2]

\* np.fft.fftfreq(n, l/n) * l : the index of each frequency
fftfreq(n) == [i \in 1..n |-> IF i - 1 <= (n - 1) \div 2 THEN i - 1
                                                           ELSE i - 1 - n]

\* variant: the highest momentum of an even lattice is set to zero
get_kxyz_no_nyquist(n) ==
    [i \in 1..n |-> IF 2 * (i - 1) = n THEN 0 ELSE Q * fftfreq(n)[i]]

\* 2*pi*fftfreq in units of 2*pi/(Q*l)
get_kxyz(n) == [i \in 1..n |-> Q * fftfreq(n)[i]]

\* np.allclose(a, b): |a - b| <= atol + rtol*|b|.  For integers a and b,
\* d <= atol + |b|/RtolDen exactly when d <= atol + floor(|b|/RtolDen)
allclose(a, b) == Abs(a - b) <= Atol + (Abs(b) \div RtolDen)

(***************************************************************************)
(* bessel (roots of J_0) and the eigenvalues of the radial DVR matrix,     *)
(* from the asymptotic form z[n] = (n + 0.75)*pi; units of pi/4.           *)
(***************************************************************************)
j_root(N) == [n \in 1..N |-> 4 * (n - 1) + 3]

eigh_d(N) == [n \in 1..N |-> j_root(N)[n] * j_root(N)[n]]

(***************************************************************************)
(* CylindricalBasis                                                        *)
(***************************************************************************)
Cyl__init__(twist, px, symmetric_x) ==
    [twist |-> twist,
     px |-> px,
     symmetric_x |-> symmetric_x,
     Nxr |-> <<Nx, Nr>>,
     Lxr |-> <<1, 1>>,
     axes |-> <<-2, -1>>]

Cyl_init(self) ==
    LET x == get_xyz(self.Nxr[1], self.symmetric_x)
        kx0 == get_kxyz(self.Nxr[1])
        kx == [i \in DOMAIN kx0 |-> kx0[i] + self.twist - self.px]
        kx2 == [i \in DOMAIN kx |-> kx[i] * kx[i]]
        kmax == 4 * self.Nxr[2] - 1
        r == j_root(self.Nxr[2])
        d == eigh_d(self.Nxr[2])
    IN  [twist |-> self.twist,
         px |-> self.px,
         symmetric_x |-> self.symmetric_x,
         Nxr |-> self.Nxr,
         Lxr |-> self.Lxr,
         axes |-> self.axes,
         _kx0 |-> kx0,
         _kx |-> kx,
         _kx2 |-> kx2,
         y_twist |-> [i \in DOMAIN x |-> self.twist * x[i]],
         _kmax |-> kmax,
         k_max |-> <<Max({Abs(kx[i]) : i \in DOMAIN kx}), kmax>>,
         xyz |-> <<x, r>>,
         metric |-> r,
         weights |-> [n \in DOMAIN r |-> 1],
         _Kr |-> d,
         _Kr_diag |-> d,
         _Kx |-> kx2,
         _K_data |-> <<>>]

\* the operator pair computed on a miss
K_data_of(self, factor) ==
    [exp_K_r |-> [j \in DOMAIN self._Kr_diag |-> Exp(factor * self._Kr_diag[j])],
     exp_K_x |-> [i \in DOMAIN self._Kx |-> Exp(factor * self._Kx[i])]]

\* variant: the lookup compares the cached factor with the argument
Lookup_swapped(K_data, factor) ==
    {i - 1 : i \in {k \in 1..Len(K_data) : allclose(K_data[k][1], factor)}}

\* the lookup loop: the indices (from 0) of the entries whose factor is
\* close to the argument; ind is left at the last of them
Lookup(K_data, factor) ==
    {i - 1 : i \in {k \in 1..Len(K_data) : allclose(factor, K_data[k][1])}}

\* variant: the loop stops one entry too early
Evict_late(K_data) ==
    IF Len(K_data) > _K_data_max_len + 1 THEN Tail(K_data) ELSE K_data

\* variant: pop() removes the newest entry instead of the oldest
Evict_poplast(K_data) ==
    IF Len(K_data) > _K_data_max_len THEN SubSeq(K_data, 1, _K_data_max_len)
    ELSE K_data

\* while len(self._K_data) > _K_data_max_len: self._K_data.pop(0)
RECURSIVE Evict(_)
Evict(K_data) ==
    IF Len(K_data) > _K_data_max_len THEN Evict(Tail(K_data)) ELSE K_data

\* seq[ind] with Python's negative indices: <<item>>, or <<>> for IndexError
PyIndex(seq, ind) ==
    LET i == IF ind < 0 THEN Len(seq) + ind + 1 ELSE ind + 1
    IN  IF i \in 1..Len(seq) THEN <<seq[i]>> ELSE <<>>

\* ifft(exp_K_x * fft(y)) followed by einsum with exp_K_r; with a twist the
\* axial result is wrapped in a 1-tuple (trailing comma), which einsum
\* reads as an array with one more leading axis
ApplyPair(self, K_data, y) ==
    Ret(IF self.twist = 0 THEN y.shape ELSE <<1>> \o y.shape,
        [i \in DOMAIN y.val |->
            [j \in DOMAIN y.val[i] |->
                Mul(K_data.exp_K_r[j], Mul(K_data.exp_K_x[i], y.val[i][j]))]])

\* variant: a hit moves the entry to the end (least-recently-used order)
apply_exp_K_lru(self, y, factor) ==
    LET found == Lookup(self._K_data, factor)
        appended == Append(self._K_data, <<factor, K_data_of(self, factor)>>)
        at == Max(found) + 1
        moved == SubSeq(self._K_data, 1, at - 1)
                 \o SubSeq(self._K_data, at + 1, Len(self._K_data))
                 \o <<self._K_data[at]>>
        K_data1 == IF found = {} THEN Evict(appended) ELSE moved
        entry == PyIndex(K_data1, -1)
    IN  [self |-> [self EXCEPT !._K_data = K_data1],
         ind |-> IF found = {} THEN -1 ELSE Max(found),
         hit |-> found # {},
         npopped |-> IF found = {} THEN Len(appended) - Len(K_data1) ELSE 0,
         ret |-> ApplyPair(self, entry[1][2], y)]

\* variant: ind = 0 after the append
apply_exp_K_first(self, y, factor) ==
    LET found == Lookup(self._K_data, factor)
        appended == Append(self._K_data, <<factor, K_data_of(self, factor)>>)
        K_data1 == IF found = {} THEN Evict(appended) ELSE self._K_data
        ind == IF found = {} THEN 0 ELSE Max(found)
        entry == PyIndex(K_data1, ind)
    IN  [self |-> [self EXCEPT !._K_data = K_data1],
         ind |-> ind,
         hit |-> found # {},
         npopped |-> IF found = {} THEN Len(appended) - Len(K_data1) ELSE 0,
         ret |-> IF entry = <<>> THEN Raise("IndexError")
                 ELSE ApplyPair(self, entry[1][2], y)]

apply_exp_K(self, y, factor) ==
    LET found == Lookup(self._K_data, factor)
        appended == Append(self._K_data, <<factor, K_data_of(self, factor)>>)
        K_data1 == IF found = {} THEN Evict(appended) ELSE self._K_data
        ind == IF found = {} THEN -1 ELSE Max(found)
        entry == PyIndex(K_data1, ind)
    IN  [self |-> [self EXCEPT !._K_data = K_data1],
         ind |-> ind,
         hit |-> found # {},
         npopped |-> IF found = {} THEN Len(appended) - Len(K_data1) ELSE 0,
         ret |-> IF entry = <<>> THEN Raise("IndexError")
                 ELSE ApplyPair(self, entry[1][2], y)]

\* variant: the axial factor is scaled in place (self._Kx *= ...)
apply_K_inplace(self, y) ==
    [self |-> [self EXCEPT !._Kx = [i \in DOMAIN self._Kx |->
                                      2 * self._Kx[i]]],
     ret |-> Ret(y.shape,
                 [i \in DOMAIN y.val |->
                     [j \in DOMAIN y.val[i] |->
                         Scale(self._Kx[i] + self._Kr[j], y.val[i][j])]])]

apply_K(self, y) ==
    [self |-> self,
     ret |-> Ret(y.shape,
                 [i \in DOMAIN y.val |->
                     [j \in DOMAIN y.val[i] |->
                         Scale(self._Kx[i] + self._Kr[j], y.val[i][j])]])]

\* variant: the exponential is taken of +factor
Cyl_laplacian_pos(self, y, factor, exp) ==
    IF ~exp
    THEN LET r == apply_K(self, y)
         IN  [self |-> r.self,
              ind |-> -1,
              hit |-> FALSE,
              npopped |-> 0,
              ret |-> Ret(r.ret.shape,
                          [i \in DOMAIN r.ret.val |->
                              [j \in DOMAIN r.ret.val[i] |->
                                  Scale(-factor, r.ret.val[i][j])]])]
    ELSE apply_exp_K(self, y, factor)

Cyl_laplacian(self, y, factor, exp) ==
    IF ~exp
    THEN LET r == apply_K(self, y)
         IN  [self |-> r.self,
              ind |-> -1,
              hit |-> FALSE,
              npopped |-> 0,
              ret |-> Ret(r.ret.shape,
                          [i \in DOMAIN r.ret.val |->
                              [j \in DOMAIN r.ret.val[i] |->
                                  Scale(-factor, r.ret.val[i][j])]])]
    ELSE apply_exp_K(self, y, -factor)

apply_Px(self, y) ==
    [self |-> self,
     ret |-> Ret(y.shape,
                 [i \in DOMAIN y.val |->
                     [j \in DOMAIN y.val[i] |->
                         Scale(self._kx0[i], y.val[i][j])]])]

(***************************************************************************)
(* Keyword arguments: a sequence of <<name, value>> pairs                  *)
(***************************************************************************)
KwNames(kw) == {kw[i][1] : i \in 1..Len(kw)}

KwGet(kw, name, default) ==
    IF name \in KwNames(kw)
    THEN kw[CHOOSE i \in 1..Len(kw) : kw[i][1] = name][2]
    ELSE default

(***************************************************************************)
(* PeriodicBasis / CartesianBasis                                          *)
(*                                                                         *)
(* A field is given by its Fourier coefficients, one per index tuple of    *)
(* the momentum arrays.  Momenta of dimension i are integers in units of   *)
(* 2*pi/(Q*Lxyz[i]).  The convolutions return a description of the         *)
(* computation: the algorithm, its kernel, the source field, the form      *)
(* factors and the normalisation.                                          *)
(***************************************************************************)
RECURSIVE SeqProd(_)
SeqProd(q) == IF q = <<>> THEN 1 ELSE Head(q) * SeqProd(Tail(q))

RECURSIVE SeqSum(_)
SeqSum(q) == IF q = <<>> THEN 0 ELSE Head(q) + SeqSum(Tail(q))

\* the index tuples of an array of shape N
Idx(N) == {t \in [DOMAIN N -> 1..Max({N[i] : i \in DOMAIN N})] :
              \A i \in DOMAIN N : t[i] <= N[i]}

\* CartesianBasis.__init__(Nxyz, Lxyz, symmetric_lattice=False,
\*                         fast_coulomb=True)
Cart__init__(Nxyz, Lxyz, kw) ==
    [symmetric_lattice |-> KwGet(kw, "symmetric_lattice", FALSE),
     Nxyz |-> Nxyz,
     Lxyz |-> Lxyz,
     fast_coulomb |-> KwGet(kw, "fast_coulomb", TRUE)]

\* PeriodicBasis.init
Per_init(self) ==
    LET pxyz == [i \in DOMAIN self.Nxyz |-> get_kxyz(self.Nxyz[i])]
    IN  [symmetric_lattice |-> self.symmetric_lattice,
         k_max |-> [i \in DOMAIN pxyz |->
                      Max({Abs(pxyz[i][n]) : n \in DOMAIN pxyz[i]})],
         xyz |-> [i \in DOMAIN self.Nxyz |->
                    get_xyz(self.Nxyz[i], self.symmetric_lattice)],
         metric |-> <<SeqProd(self.Lxyz), SeqProd(self.Nxyz)>>,
         Nxyz |-> self.Nxyz,
         Lxyz |-> self.Lxyz,
         fast_coulomb |-> self.fast_coulomb,
         _pxyz |-> pxyz]

\* the last dim entries of a shape: y.shape[-dim:]
LastD(shape, dim) == SubSeq(shape, Len(shape) - dim + 1, Len(shape))

\* variant: the first axes are transformed
fftn_axes_first(self, shape) == [i \in 1..Len(self.Nxyz) |-> i]

\* range(s-dim, s): the axes (counted from 1) that fftn and ifftn transform
fftn_axes(self, shape) ==
    [i \in 1..Len(self.Nxyz) |-> Len(shape) - Len(self.Nxyz) + i]

\* the factor 1/n of ifftn: the number of points of the transformed axes
ifftn_norm(self, shape) ==
    SeqProd([i \in 1..Len(self.Nxyz) |-> shape[fftn_axes(self, shape)[i]]])

\* sum(_p**2 for _p in self._pxyz) at the index tuple t, in units of
\* (2*pi/(Q*prod(Lxyz)))**2; the momentum arrays broadcast against the
\* trailing axes of the field
SumP2(self, t) ==
    LET lead == Len(t) - Len(self._pxyz)
    IN  SeqSum([i \in DOMAIN self._pxyz |->
                  (self._pxyz[i][t[lead + i]]
                   * (SeqProd(self.Lxyz) \div self.Lxyz[i]))
                  * (self._pxyz[i][t[lead + i]]
                     * (SeqProd(self.Lxyz) \div self.Lxyz[i]))])

Per_laplacian(self, y, factor, exp) ==
    [self |-> self,
     ret |-> Ret(y.shape,
                 [t \in DOMAIN y.val |->
                     Mul(IF exp THEN Exp(-factor * SumP2(self, t))
                         ELSE Num(-factor * SumP2(self, t), 0),
                         y.val[t])])]

\* convolve(y, C=None, Ck=None): "kernel" is <<"C", array>> or <<"Ck", fn>>
Per_convolve(self, y, kernel) ==
    [self |-> self,
     ret |-> Ret(y.shape,
                 [axes |-> fftn_axes(self, y.shape),
                  alg |-> "periodic",
                  Ck |-> IF kernel[1] = "Ck" THEN <<"Ck(k)", kernel[2]>>
                         ELSE <<"fftn(C)", kernel[2]>>,
                  src |-> y.val])]

TypeError == Raise("TypeError")

\* the shape with its last dim axes replaced by f of them
LastAxes(shape, dim, f(_)) ==
    [i \in DOMAIN shape |-> IF i > Len(shape) - dim THEN f(shape[i])
                            ELSE shape[i]]

Times3(n) == 3 * n

Third(n) == n \div 3

\* itertools.product(np.arange(3), repeat=dim)
Offsets(dim) == [1..dim -> 0..2]

(* A kernel value is pi^p * (n/d) * osc / q * prod(F(k) for F in ff), where *)
(* osc is 1 - cos(sqrt(c)) when c >= 0 and 1 when c = -1.                  *)
\* np.ma.divide(a, k**2).filled(fill): masked where k**2 vanishes; a is 1.0
\* (c = -1) or 1 - cos(D*k) (c = (D*k)**2), fill is the fraction <<n, d>>
ma_divide_filled(c, k2, fill) ==
    IF k2 = 0
    THEN [n |-> fill[1],
          p |-> 0,
          q |-> 1,
          c |-> -1,
          d |-> fill[2],
          ff |-> <<>>]
    ELSE [n |-> 1, p |-> 0, q |-> k2, c |-> c, d |-> 1, ff |-> <<>>]

\* 4*np.pi * v
Times4Pi(v) == [v EXCEPT !.p = @ + 1, !.n = 4 * @]

\* PeriodicBasis.coulomb_kernel(k)
Per_coulomb_kernel(self, k) == Times4Pi(ma_divide_filled(-1, k * k, <<0, 1>>))

\* the closure C(k) of convolve_coulomb_exact, as a function of k**2
C(self, form_factors, k2) ==
    LET D2 == SeqSum([i \in DOMAIN self.Lxyz |-> self.Lxyz[i] * self.Lxyz[i]])
    IN  [Times4Pi(ma_divide_filled(D2 * k2, k2, <<D2, 2>>))
            EXCEPT !.ff = form_factors]

\* Lengths are compared across dimensions in units of 1/prod(Lxyz)
PerL(self, i) == SeqProd(self.Lxyz) \div self.Lxyz[i]

\* sum(_k**2 for _k in k), k a tuple of momenta in units 2*pi/(3*Q*Lxyz[i])
SumK2(self, k) ==
    SeqSum([i \in DOMAIN k |-> (k[i] * PerL(self, i)) * (k[i] * PerL(self, i))])

\* method == 'sum': for each offset l the component of y of wave number
\* k + delta is multiplied by C(|k + delta|); "k" holds, for each l, the
\* broadcastable arrays _k + _d, one per axis.  Momenta are in units of
\* 2*pi/(3*Q*Lxyz[i]), so delta is Q*l.
exact_sum(self, y, form_factors) ==
    LET dim == Len(self.Lxyz)
        D2 == SeqSum([i \in DOMAIN self.Lxyz |-> self.Lxyz[i] * self.Lxyz[i]])
    IN  Ret(y.shape,
            [div |-> dim * dim * dim,
             axes |-> fftn_axes(self, y.shape),
             k |-> [l \in Offsets(dim) |->
                      [i \in 1..dim |->
                         [j \in DOMAIN self._pxyz[i] |->
                            3 * self._pxyz[i][j] + Q * l[i]]]],
             alg |-> "sum",
             src |-> y.val,
             form_factors |-> form_factors,
             D2 |-> D2,
             offsets |-> Offsets(dim),
             norm |-> ifftn_norm(self, y.shape)])

\* method == 'pad': the field is copied into the corner of an array whose
\* last dim axes are 3 times as long; the kernel is evaluated on the momenta
\* of that lattice ("k" holds their broadcastable arrays, one per axis);
\* the result is cropped to the slices of the field
exact_pad(self, y, form_factors) ==
    LET dim == Len(self.Lxyz)
        D2 == SeqSum([i \in DOMAIN self.Lxyz |-> self.Lxyz[i] * self.Lxyz[i]])
        N_padded == [i \in 1..dim |-> 3 * LastD(y.shape, dim)[i]]
        shape_padded == LastAxes(y.shape, dim, Times3)
    IN  Ret([i \in DOMAIN y.shape |->
                IF y.shape[i] < shape_padded[i] THEN y.shape[i]
                ELSE shape_padded[i]],
            [axes |-> fftn_axes(self, shape_padded),
             k |-> [i \in 1..dim |-> get_kxyz(N_padded[i])],
             alg |-> "pad",
             src |-> y.val,
             form_factors |-> form_factors,
             D2 |-> D2,
             norm |-> ifftn_norm(self, shape_padded),
             padded |-> shape_padded])

\* variant: an unknown method name is treated as 'sum'
convolve_coulomb_exact_lenient(self, y, form_factors, kw) ==
    [self |-> self,
     ret |-> IF ~(KwNames(kw) \subseteq {"method"}) THEN TypeError
             ELSE IF KwGet(kw, "method", "sum") = "pad"
             THEN exact_pad(self, y, form_factors)
             ELSE exact_sum(self, y, form_factors)]

\* convolve_coulomb_exact(self, y, form_factors=[], method='sum')
convolve_coulomb_exact(self, y, form_factors, kw) ==
    LET method == KwGet(kw, "method", "sum")
    IN  [self |-> self,
         ret |->
            IF ~(KwNames(kw) \subseteq {"method"}) THEN TypeError
            ELSE IF method = "sum" THEN exact_sum(self, y, form_factors)
            ELSE IF method = "pad" THEN exact_pad(self, y, form_factors)
            ELSE Raise("NotImplementedError")]

\* convolve_coulomb_fast(self, y, form_factors=[], correct=False)
convolve_coulomb_fast(self, y, form_factors, kw) ==
    LET dim == Len(self.Lxyz)
        N0 == LastAxes(y.shape, dim, Third)
        y0 == Ret(N0, [resample |-> y.val, to |-> N0])
        V == convolve_coulomb_exact(self, y0, form_factors,
                                    <<(<<"method", "pad">>)>>).ret
    IN  [self |-> self,
         ret |->
            IF ~(KwNames(kw) \subseteq {"correct"}) THEN TypeError
            ELSE Ret(y.shape,
                     [alg |-> "fast",
                      src |-> y.val,
                      form_factors |-> form_factors,
                      correct |-> KwGet(kw, "correct", FALSE),
                      low |-> V.val])]

\* variant: the exact algorithm is used whatever the flag says
convolve_coulomb_always_exact(self, y, form_factors, kw) ==
    convolve_coulomb_exact(self, y, form_factors, kw)

\* convolve_coulomb(self, y, form_factors=[], **kw)
convolve_coulomb(self, y, form_factors, kw) ==
    IF self.fast_coulomb
    THEN convolve_coulomb_fast(self, y, form_factors, kw)
    ELSE convolve_coulomb_exact(self, y, form_factors, kw)

(***************************************************************************)
(* Inputs                                                                  *)
(***************************************************************************)
\* factors passed to apply_exp_K; 99999 and 100010 are close in one
\* direction only: allclose(99999, 100010) but not allclose(100010, 99999)
Factors == {0, 5, 20, 99999, 100010}

\* factors passed to laplacian
LapFactors == {0, 5, -5}

FieldOf(a) ==
    Ret(<<Nx, Nr>>,
        [i \in 1..Nx |-> [j \in 1..Nr |-> Num(a + i + 2 * j, 0)]])

Fields == {FieldOf(a) : a \in 1..MaxAmp}

\* <<twist, px>> of the instances: the default, and a twisted boosted one
Configs == {<<0, 0>>, <<1, 1>>}

(***************************************************************************)
(* Sequential use of one CylindricalBasis                                  *)
(***************************************************************************)
NoCall == [factor |-> 0,
           ind |-> -1,
           y |-> Ret(<<>>, <<>>),
           hit |-> FALSE,
           npopped |-> 0,
           ret |-> Ret(<<>>, <<>>),
           exp |-> FALSE,
           obj |-> "cyl",
           op |-> "new",
           pre |-> <<>>]

\* an age is the number of misses since an event; it stops counting at
\* _K_data_max_len, and is Never if the event has not happened since init()
Never == _K_data_max_len + 1

NoWatch(f) == [f |-> f, callAge |-> Never, missAge |-> Never]

Bump(age) == IF age = Never THEN Never
             ELSE IF age < _K_data_max_len THEN age + 1 ELSE age

\* bookkeeping for a call that reached apply_exp_K with "factor"
Watched(w, factor, hit) ==
    LET c1 == IF hit THEN w.callAge ELSE Bump(w.callAge)
        m1 == IF hit THEN w.missAge ELSE Bump(w.missAge)
    IN  [f |-> w.f,
         callAge |-> IF factor = w.f THEN 0 ELSE c1,
         missAge |-> IF factor = w.f /\ ~hit THEN 0 ELSE m1]

CacheCall(op, y, factor, exp, key, r) ==
    /\ cyl' = r.self
    /\ last' = [factor |-> factor,
                ind |-> r.ind,
                y |-> y,
                hit |-> r.hit,
                npopped |-> r.npopped,
                ret |-> r.ret,
                exp |-> exp,
                obj |-> "cyl",
                op |-> op,
                pre |-> cyl._K_data]
    /\ watch' = Watched(watch, key, r.hit)
    /\ UNCHANGED <<cart, th, flags>>

PlainCall(op, y, r) ==
    /\ cyl' = r.self
    /\ last' = [factor |-> 0,
                ind |-> -1,
                y |-> y,
                hit |-> FALSE,
                npopped |-> 0,
                ret |-> r.ret,
                exp |-> FALSE,
                obj |-> "cyl",
                op |-> op,
                pre |-> cyl._K_data]
    /\ UNCHANGED <<watch, cart, th, flags>>

Call_apply_exp_K ==
    \E y \in Fields, factor \in Factors :
        CacheCall("apply_exp_K", y, factor, TRUE, factor,
                  apply_exp_K(cyl, y, factor))

Call_laplacian_exp ==
    \E y \in Fields, factor \in LapFactors :
        CacheCall("laplacian", y, factor, TRUE, -factor,
                  Cyl_laplacian(cyl, y, factor, TRUE))

Call_laplacian ==
    \E y \in Fields, factor \in LapFactors :
        LET r == Cyl_laplacian(cyl, y, factor, FALSE)
        IN  /\ cyl' = r.self
            /\ last' = [factor |-> factor,
                        ind |-> -1,
                        y |-> y,
                        hit |-> FALSE,
                        npopped |-> 0,
                        ret |-> r.ret,
                        exp |-> FALSE,
                        obj |-> "cyl",
                        op |-> "laplacian",
                        pre |-> cyl._K_data]
            /\ UNCHANGED <<watch, cart, th, flags>>

Call_apply_K ==
    \E y \in Fields : PlainCall("apply_K", y, apply_K(cyl, y))

Call_apply_Px ==
    \E y \in Fields : PlainCall("apply_Px", y, apply_Px(cyl, y))

\* init() called again on the instance
Call_init ==
    /\ cyl' = Cyl_init(cyl)
    /\ last' = [NoCall EXCEPT !.op = "init", !.pre = cyl._K_data]
    /\ watch' = NoWatch(watch.f)
    /\ UNCHANGED <<cart, th, flags>>

IdleCart == Per_init(Cart__init__(<<3>>, <<1>>, <<>>))

IdleThread == [i |-> 0,
               factor |-> 0,
               ind |-> 0,
               found |-> FALSE,
               pc |-> "idle",
               calls |-> 0,
               mixed |-> FALSE]

IdleThreads == [t \in 1..NThreads |-> IdleThread]

Init ==
    /\ \E c \in Configs : cyl = Cyl_init(Cyl__init__(c[1], c[2], TRUE))
    /\ last = NoCall
    /\ \E f \in Factors : watch = NoWatch(f)
    /\ cart = IdleCart
    /\ th = IdleThreads
    /\ flags = {}

Next ==
    \/ Call_apply_exp_K
    \/ Call_laplacian_exp
    \/ Call_laplacian
    \/ Call_apply_K
    \/ Call_apply_Px
    \/ Call_init

Spec == Init /\ [][Next]_vars

(***************************************************************************)
(* Use of one CartesianBasis                                               *)
(***************************************************************************)
\* <<Nxyz, Lxyz>> in 1, 2 and 3 dimensions
Grids == {<<(<<3>>), (<<1>>)>>, <<(<<4, 3>>), (<<1, 2>>)>>,
          <<(<<3, 3, 3>>), (<<1, 1, 1>>)>>}

CtorKws == {<<>>, <<(<<"fast_coulomb", TRUE>>)>>,
            <<(<<"fast_coulomb", FALSE>>)>>}

\* 'fft' stands for any method name other than 'sum' and 'pad'
Methods == {"sum", "pad", "fft"}

MethodKws == {<<>>} \cup {<<(<<"method", m>>)>> : m \in Methods}

CorrectKws == {<<>>} \cup {<<(<<"correct", c>>)>> : c \in BOOLEAN}

Kws == MethodKws \cup CorrectKws
       \cup {<<(<<"method", m>>), (<<"correct", TRUE>>)>> : m \in Methods}

FormFactors == {<<>>, <<"F">>}

CFieldOf(N, a) == Ret(N, [t \in Idx(N) |-> Num(a + t[1], 0)])

\* a field on the grid, and one with a leading axis of 2 components
CFields(self) == {CFieldOf(self.Nxyz, 1), CFieldOf(<<2>> \o self.Nxyz, 1)}

\* the plane wave exp(i*k0*x), k0 the lattice momentum of index t0
PlaneWave(self, t0) ==
    Ret(self.Nxyz, [t \in Idx(self.Nxyz) |-> IF t = t0 THEN Num(1, 0)
                                                       ELSE Num(0, 0)])

PlaneWaves(self) == {PlaneWave(self, t0) : t0 \in Idx(self.Nxyz)}

CartCall(op, y, form_factors, kw, r) ==
    /\ cart' = r.self
    /\ last' = [y |-> y,
                ret |-> r.ret,
                kw |-> kw,
                form_factors |-> form_factors,
                obj |-> "cart",
                op |-> op,
                pre |-> cart]
    /\ UNCHANGED <<cyl, watch, th, flags>>

Cart_laplacian ==
    \E y \in CFields(cart) \cup PlaneWaves(cart),
       factor \in LapFactors, exp \in BOOLEAN :
        CartCall("laplacian", y, <<>>,
                 <<(<<"factor", factor>>), (<<"exp", exp>>)>>,
                 Per_laplacian(cart, y, factor, exp))

Cart_convolve ==
    \E y \in CFields(cart), kind \in {"C", "Ck"} :
        CartCall("convolve", y, <<>>, <<(<<kind, "kernel">>)>>,
                 Per_convolve(cart, y, <<kind, "kernel">>))

Cart_convolve_coulomb ==
    \E y \in CFields(cart), form_factors \in FormFactors, kw \in Kws :
        CartCall("convolve_coulomb", y, form_factors, kw,
                 convolve_coulomb(cart, y, form_factors, kw))

Cart_convolve_coulomb_exact ==
    \E y \in CFields(cart), form_factors \in FormFactors, kw \in MethodKws :
        CartCall("convolve_coulomb_exact", y, form_factors, kw,
                 convolve_coulomb_exact(cart, y, form_factors, kw))

Cart_convolve_coulomb_fast ==
    \E y \in CFields(cart), form_factors \in FormFactors, kw \in CorrectKws :
        CartCall("convolve_coulomb_fast", y, form_factors, kw,
                 convolve_coulomb_fast(cart, y, form_factors, kw))

\* init() called again on the instance
Cart_init ==
    /\ cart' = Per_init(cart)
    /\ last' = [y |-> Ret(<<>>, <<>>),
                ret |-> Ret(<<>>, <<>>),
                kw |-> <<>>,
                form_factors |-> <<>>,
                obj |-> "cart",
                op |-> "init",
                pre |-> cart]
    /\ UNCHANGED <<cyl, watch, th, flags>>

\* the state after CartesianBasis(Nxyz, Lxyz, **kw)
CartNew(g, kw) ==
    /\ cart = Per_init(Cart__init__(g[1], g[2], kw))
    /\ last = [y |-> Ret(<<>>, <<>>),
               ret |-> Ret(<<>>, <<>>),
               kw |-> kw,
               form_factors |-> <<>>,
               obj |-> "cart",
               op |-> "__init__",
               pre |-> Cart__init__(g[1], g[2], kw)]

InitCart ==
    /\ \E g \in Grids, kw \in CtorKws : CartNew(g, kw)
    /\ cyl = Cyl_init(Cyl__init__(0, 0, TRUE))
    /\ watch = NoWatch(0)
    /\ th = IdleThreads
    /\ flags = {}

NextCart ==
    \/ Cart_laplacian
    \/ Cart_convolve
    \/ Cart_convolve_coulomb
    \/ Cart_convolve_coulomb_exact
    \/ Cart_convolve_coulomb_fast
    \/ Cart_init

SpecCart == InitCart /\ [][NextCart]_vars

(***************************************************************************)
(* Properties of the cache under sequential use                            *)
(***************************************************************************)
\* the factor that reached apply_exp_K in the call described by c
Key(c) == IF c.op = "laplacian" THEN -c.factor ELSE c.factor

\* the call described by c reached apply_exp_K
CacheOp(c) == c.obj = "cyl" /\ c.exp

IsMiss(c) == CacheOp(c) /\ ~c.hit

IsHit(c) == CacheOp(c) /\ c.hit

IsInit(c) == c.obj = "cyl" /\ c.op = "init"

\* C1: after init() and after every apply_exp_K / laplacian(exp=True) call
\* the cache _K_data holds at most 3 entries.
C1_CacheBounded == Len(cyl._K_data) <= 3

\* a miss on a full cache has just completed
C1_Witness ==
    /\ IsMiss(last)
    /\ Len(last.pre) = 3
    /\ Len(cyl._K_data) = 3

\* C2: a miss on a cache of 3 entries removes exactly the entry inserted
\* earliest, keeps the other two in their order and puts the new entry,
\* computed for the call's factor, last; this is so whether or not the
\* oldest entry was hit since it was inserted.
C2_EvictsOldest ==
    [][(IsMiss(last') /\ Len(cyl._K_data) = 3) =>
          /\ last'.npopped = 1
          /\ cyl'._K_data =
                Tail(cyl._K_data)
                \o <<(<<Key(last'), K_data_of(cyl, Key(last'))>>)>>]_vars

\* a miss has just evicted the entry of the watched factor, which was
\* inserted three misses ago and hit, as the oldest entry, one miss ago
C2_Witness ==
    /\ IsMiss(last)
    /\ Len(last.pre) = 3
    /\ last.npopped = 1
    /\ last.pre[1][1] = watch.f
    /\ watch.missAge = 3
    /\ watch.callAge = 1
    /\ cyl._K_data[3][1] = Key(last)

\* the frame part of C3: only a miss changes the cache, and a hit applies
\* the stored pair of an entry whose factor is close to the argument
C3_Frame ==
    /\ (~IsInit(last') /\ ~IsMiss(last')) => cyl'._K_data = cyl._K_data
    /\ IsHit(last') =>
          /\ allclose(Key(last'), cyl._K_data[last'.ind + 1][1])
          /\ last'.ret = ApplyPair(cyl, cyl._K_data[last'.ind + 1][2], last'.y)

\* C3 as stated: the frame part, and a call with a factor that was last
\* used fewer than 3 misses ago is a hit.
C3_SecondCallHits ==
    [][/\ C3_Frame
       /\ (CacheOp(last') /\ Key(last') = watch.f /\ watch.callAge \in 0..2)
             => last'.hit]_vars

\* C3 (amended): the cache is changed only by an apply_exp_K miss; a hit
\* reuses the stored pair and leaves contents and order unchanged; apply_K,
\* laplacian(exp=False) and apply_Px never change it; and a call with a
\* factor that was last computed (missed) fewer than 3 misses ago is a hit.
C3_RecomputedWithin3Hits ==
    [][/\ C3_Frame
       /\ (CacheOp(last') /\ Key(last') = watch.f /\ watch.missAge \in 0..2)
             => last'.hit]_vars

\* a hit on a factor computed two misses earlier
C3_Witness ==
    /\ IsHit(last)
    /\ Key(last) = watch.f
    /\ watch.missAge = 2
    /\ Len(cyl._K_data) = 3

\* what an instance of the same configuration with an empty cache returns
FreshResult(self, y, factor) == apply_exp_K(Cyl_init(self), y, factor).ret

\* C4: apply_exp_K(y, f) and laplacian(y, factor, exp=True) return what an
\* instance with the same configuration and any other cache history
\* returns, in particular what a fresh instance returns.
C4_HistoryIndependent ==
    CacheOp(last) => last.ret = FreshResult(cyl, last.y, Key(last))

\* C7: laplacian(y, factor, exp) returns (-factor)*apply_K(y) and leaves
\* the cache alone when exp is false; when exp is true it returns
\* apply_exp_K(y, -factor), so a miss records the key -factor.
C7_Laplacian ==
    (last.obj = "cyl" /\ last.op = "laplacian") =>
        LET before == [cyl EXCEPT !._K_data = last.pre]
        IN  IF last.exp
            THEN /\ last.ret = apply_exp_K(before, last.y, -last.factor).ret
                 /\ ~last.hit =>
                       cyl._K_data[Len(cyl._K_data)][1] = -last.factor
            ELSE /\ cyl._K_data = last.pre
                 /\ \A i \in 1..Nx, j \in 1..Nr :
                       last.ret.val[i][j] =
                           Scale(-last.factor,
                                 apply_K(before, last.y).ret.val[i][j])

\* laplacian(y, 5, exp=True) missed and recorded the key -5
C7_Witness ==
    /\ IsMiss(last)
    /\ last.op = "laplacian"
    /\ last.factor = 5
    /\ cyl._K_data[Len(cyl._K_data)][1] = -5

\* C8: with twist = 0 and px = 0, apply_exp_K(field, 0) returns the field
\* unchanged whatever the cache held before the call.
C8_ZeroFactorIsIdentity ==
    (last.obj = "cyl" /\ last.op = "apply_exp_K" /\ last.factor = 0
        /\ cyl.twist = 0 /\ cyl.px = 0) => last.ret = last.y

(***************************************************************************)
(* Both bases in use                                                       *)
(***************************************************************************)
InitFrame ==
    /\ \E c \in Configs : cyl = Cyl_init(Cyl__init__(c[1], c[2], TRUE))
    /\ CartNew(<<(<<3>>), (<<1>>)>>, <<>>)
    /\ watch = NoWatch(20)
    /\ th = IdleThreads
    /\ flags = {}

NextFrame ==
    \/ Call_apply_exp_K
    \/ Call_laplacian_exp
    \/ Call_laplacian
    \/ Call_apply_K
    \/ Call_apply_Px
    \/ Call_init
    \/ Cart_laplacian
    \/ Cart_convolve
    \/ Cart_convolve_coulomb
    \/ Cart_convolve_coulomb_exact
    \/ Cart_convolve_coulomb_fast
    \/ Cart_init

SpecFrame == InitFrame /\ [][NextFrame]_vars

\* everything of a CylindricalBasis but the exponential-operator cache
Frozen(self) == [self EXCEPT !._K_data = <<>>]

\* C6: no call changes the grid configuration or the initialization cache
\* of either basis (for the CylindricalBasis: everything but _K_data), and
\* init() leaves _K_data empty.
C6_ConfigurationFrozen ==
    [][/\ Frozen(cyl') = Frozen(cyl)
       /\ cart' = cart
       /\ IsInit(last') => cyl'._K_data = <<>>]_vars

\* init() has just been called on an instance whose cache was full
C6_Witness ==
    /\ IsInit(last)
    /\ Len(last.pre) = 3
    /\ cyl._K_data = <<>>

(***************************************************************************)
(* Properties of the Coulomb convolution dispatch                          *)
(***************************************************************************)
Unsupported(kw) ==
    /\ "method" \in KwNames(kw)
    /\ KwGet(kw, "method", "sum") \notin {"sum", "pad"}

\* C9 as stated: a method name other than 'sum' and 'pad' raises
\* NotImplementedError and changes no state, from convolve_coulomb_exact
\* and from convolve_coulomb, for either value of fast_coulomb.
C9_UnsupportedMethodNotImplemented ==
    (/\ last.obj = "cart"
     /\ last.op \in {"convolve_coulomb", "convolve_coulomb_exact"}
     /\ Unsupported(last.kw))
        => (last.ret.exc = "NotImplementedError" /\ cart = last.pre)

\* C9 (amended): a method name other than 'sum' and 'pad' raises
\* NotImplementedError from convolve_coulomb_exact, and from
\* convolve_coulomb when fast_coulomb is false and method is the only
\* keyword; when fast_coulomb is true, convolve_coulomb with a method
\* keyword raises TypeError.  No state changes in any of these cases.
C9_UnsupportedMethodFailsFast ==
    (last.obj = "cart" /\ "method" \in KwNames(last.kw)) =>
        /\ cart = last.pre
        /\ (last.op = "convolve_coulomb_exact" /\ Unsupported(last.kw))
              => last.ret.exc = "NotImplementedError"
        /\ (/\ last.op = "convolve_coulomb"
            /\ ~last.pre.fast_coulomb
            /\ KwNames(last.kw) = {"method"}
            /\ Unsupported(last.kw))
              => last.ret.exc = "NotImplementedError"
        /\ (last.op = "convolve_coulomb" /\ last.pre.fast_coulomb)
              => last.ret.exc = "TypeError"

\* convolve_coulomb(y, method='fft') has just failed on an exact basis
C9_Witness ==
    /\ last.obj = "cart"
    /\ last.op = "convolve_coulomb"
    /\ ~cart.fast_coulomb
    /\ last.kw = <<(<<"method", "fft">>)>>
    /\ last.ret.exc = "NotImplementedError"

\* C10: convolve_coulomb runs the fast algorithm exactly when fast_coulomb
\* is true and the exact one exactly when it is false, on the same field,
\* form factors and keywords; the flag is the constructor's argument
\* (default true) and never changes; the exact algorithm's default method
\* is 'sum'.
C10_Dispatch ==
    /\ [](last.obj = "cart" =>
            /\ last.op = "__init__" =>
                  cart.fast_coulomb = KwGet(last.kw, "fast_coulomb", TRUE)
            /\ (last.op = "convolve_coulomb" /\ last.ret.exc = "") =>
                  /\ last.ret.val.alg = "fast" <=> last.pre.fast_coulomb
                  /\ last.ret.val.alg \in {"sum", "pad"}
                        <=> ~last.pre.fast_coulomb
                  /\ last.ret.val.src = last.y.val
                  /\ last.ret.val.form_factors = last.form_factors
                  /\ last.pre.fast_coulomb =>
                        last.ret.val.correct = KwGet(last.kw, "correct", FALSE)
                  /\ ~last.pre.fast_coulomb =>
                        last.ret.val.alg = KwGet(last.kw, "method", "sum")
            /\ (last.op = "convolve_coulomb" /\ last.ret.exc # "") =>
                  IF last.pre.fast_coulomb
                  THEN KwNames(last.kw) \ {"correct"} # {}
                  ELSE \/ KwNames(last.kw) \ {"method"} # {}
                       \/ Unsupported(last.kw)
            /\ (last.op = "convolve_coulomb_exact" /\ last.kw = <<>>) =>
                  last.ret.val.alg = "sum")
    /\ [][cart'.fast_coulomb = cart.fast_coulomb]_vars

\* convolve_coulomb(y, [F], correct=True) has run the fast algorithm
C10_Witness ==
    /\ last.obj = "cart"
    /\ last.op = "convolve_coulomb"
    /\ cart.fast_coulomb
    /\ last.form_factors = <<"F">>
    /\ last.ret.exc = ""
    /\ last.ret.val.alg = "fast"
    /\ last.ret.val.correct

(***************************************************************************)
(* Threads calling apply_exp_K on one shared instance without a lock.      *)
(* Each statement of apply_exp_K that touches self._K_data is one step:    *)
(* an iteration of the lookup loop, the append, the test of the while      *)
(* loop, the pop, and the final indexed read.                              *)
(***************************************************************************)
Threads == 1..NThreads

ConcFactors == {0, 100010}

\* caches left by sequential calls made before the threads start
WarmUps == {<<>>, <<0, 20, 99999>>}

RECURSIVE Warm(_, _)
Warm(self, w) ==
    IF w = <<>> THEN self
    ELSE Warm(apply_exp_K(self, FieldOf(1), Head(w)).self, Tail(w))

\* another thread is inside apply_exp_K
Busy(t) == \E u \in Threads : u # t /\ th[u].pc # "idle"

RECURSIVE Calls(_)
Calls(n) == IF n = 0 THEN 0 ELSE th[n].calls + Calls(n - 1)

\* A step of thread t.  "mixed" of a call in progress is set as soon as a
\* step of another thread falls between its first and its last step; a
\* failure of a call that is not mixed is recorded as "alone".
Step(t, next, K_data, failure) ==
    /\ th' = [u \in Threads |->
                IF u = t THEN [next EXCEPT !.mixed = next.pc # "idle"
                                                     /\ (@ \/ Busy(t))]
                ELSE [th[u] EXCEPT !.mixed = @ \/ th[u].pc # "idle"]]
    /\ cyl' = [cyl EXCEPT !._K_data = K_data]
    /\ flags' = flags \cup failure
                 \cup (IF failure # {} /\ ~(th[t].mixed \/ Busy(t))
                       THEN {"alone"} ELSE {})
    /\ UNCHANGED <<last, watch, cart>>

\* apply_exp_K is entered: ind = None, the iterator is created
T_call(t) ==
    /\ th[t].pc = "idle"
    /\ Calls(NThreads) < MaxCalls
    /\ \E factor \in ConcFactors :
          Step(t, [th[t] EXCEPT !.pc = "for", !.factor = factor, !.i = 0,
                                !.found = FALSE, !.ind = 0,
                                !.calls = @ + 1, !.mixed = FALSE],
               cyl._K_data, {})

\* for _i, (_f, _d) in enumerate(self._K_data): if allclose: ind = _i
T_for(t) ==
    /\ th[t].pc = "for"
    /\ IF th[t].i < Len(cyl._K_data)
       THEN LET close == allclose(th[t].factor, cyl._K_data[th[t].i + 1][1])
            IN  Step(t, [th[t] EXCEPT !.i = @ + 1,
                                      !.found = @ \/ close,
                                      !.ind = IF close THEN th[t].i ELSE @],
                     cyl._K_data, {})
       ELSE Step(t, [th[t] EXCEPT !.pc = IF th[t].found THEN "read"
                                         ELSE "append"],
                 cyl._K_data, {})

\* variant: ind = 0 after the append
T_append_first(t) ==
    /\ th[t].pc = "append"
    /\ Step(t, [th[t] EXCEPT !.pc = "while", !.ind = 0],
            Append(cyl._K_data,
                   <<th[t].factor, K_data_of(cyl, th[t].factor)>>), {})

\* self._K_data.append((factor, K_data)); ind = -1
T_append(t) ==
    /\ th[t].pc = "append"
    /\ Step(t, [th[t] EXCEPT !.pc = "while", !.ind = -1],
            Append(cyl._K_data,
                   <<th[t].factor, K_data_of(cyl, th[t].factor)>>), {})

\* while len(self._K_data) > _K_data_max_len
T_while(t) ==
    /\ th[t].pc = "while"
    /\ Step(t, [th[t] EXCEPT !.pc = IF Len(cyl._K_data) > _K_data_max_len
                                    THEN "pop" ELSE "read"],
            cyl._K_data, {})

\* self._K_data.pop(0)
T_pop(t) ==
    /\ th[t].pc = "pop"
    /\ Step(t, [th[t] EXCEPT !.pc = "while"], Tail(cyl._K_data),
            IF Len(cyl._K_data) <= _K_data_max_len THEN {"short"} ELSE {})

\* K_data = self._K_data[ind][1]; the call returns and its locals are gone
T_read(t) ==
    /\ th[t].pc = "read"
    /\ LET entry == PyIndex(cyl._K_data, th[t].ind)
       IN  Step(t, [IdleThread EXCEPT !.calls = th[t].calls],
                cyl._K_data,
                IF entry = <<>> THEN {"index"}
                ELSE IF ~allclose(th[t].factor, entry[1][1]) THEN {"wrong"}
                ELSE {})

InitConc ==
    /\ \E w \in WarmUps : cyl = Warm(Cyl_init(Cyl__init__(0, 0, TRUE)), w)
    /\ last = NoCall
    /\ watch = NoWatch(0)
    /\ cart = IdleCart
    /\ th = IdleThreads
    /\ flags = {}

Call == \E t \in Threads : T_call(t)

For == \E t \in Threads : T_for(t)

AppendEntry == \E t \in Threads : T_append(t)

While == \E t \in Threads : T_while(t)

Pop == \E t \in Threads : T_pop(t)

Read == \E t \in Threads : T_read(t)

NextConc == Call \/ For \/ AppendEntry \/ While \/ Pop \/ Read

SpecConc == InitConc /\ [][NextConc]_vars

\* C5: calls of apply_exp_K that interleave on one instance can read the
\* pair stored for a factor not close to the caller's ("wrong"), index a
\* slot that no longer exists ("index"), and pop the cache below the
\* length sequential execution leaves ("short"); none of these happens
\* in a call whose steps are not interleaved with another thread's.
C5_FailuresNeedInterleaving == "alone" \notin flags

\* all three failures have happened in one run
C5_Witness == {"wrong", "index", "short"} \subseteq flags

(***************************************************************************)
(* Properties of the exact Coulomb convolution                             *)
(***************************************************************************)
\* the last call ran the 'sum' algorithm to completion
RanSum(c) ==
    /\ c.obj = "cart"
    /\ c.op \in {"convolve_coulomb", "convolve_coulomb_exact"}
    /\ c.ret.exc = ""
    /\ c.ret.val.alg = "sum"

\* C11: in every dimensionality the 'sum' variant accumulates one
\* contribution per offset tuple of {0,1,2}^d, 3^d in all, and divides the
\* accumulated result by that same count
C11_SumNormalisedByCount ==
    RanSum(last) =>
        /\ last.ret.val.offsets = [1..Len(cart.Nxyz) -> 0..2]
        /\ last.ret.val.div = Cardinality(last.ret.val.offsets)

\* the wave number, on the lattice padded to 3 times the length, of a
\* momentum k given in units of 2*pi/(3*Q*Lxyz[i]): wave numbers that differ
\* by 3*Nxyz[i] are the same function on that lattice
ModeOf(self, k) == [i \in DOMAIN k |-> (k[i] \div Q) % (3 * self.Nxyz[i])]

\* the momenta k, one tuple per point of the broadcast of the arrays K
Broadcast(K) ==
    {[i \in DOMAIN K |-> K[i][t[i]]] : t \in Idx([i \in DOMAIN K |-> Len(K[i])])}

\* the kernel values C(k) that a result of the exact convolution applies,
\* each with the momentum k it is evaluated at
Terms(self, v) ==
    LET ks == IF v.alg = "sum"
              THEN UNION {Broadcast(v.k[l]) : l \in DOMAIN v.k}
              ELSE Broadcast(v.k)
    IN  {[k |-> k, C |-> C(self, v.form_factors, SumK2(self, k))] : k \in ks}

\* what a result of the exact convolution does to the field: the kernel
\* value that multiplies each Fourier component of the zero-padded field,
\* and the number the sum over the components is divided by
Response(self, v) ==
    {[C |-> term.C,
      mode |-> ModeOf(self, term.k),
      den |-> IF v.alg = "sum" THEN v.norm * v.div ELSE v.norm] :
     term \in Terms(self, v)}

RanExact(c) ==
    /\ c.obj = "cart"
    /\ c.op = "convolve_coulomb_exact"
    /\ c.ret.exc = ""

\* C12: convolve_coulomb_exact with method='pad' and with method='sum',
\* applied to the same field and the same form factors, return results that
\* agree, in every dimensionality
C12_PadAgreesWithSum ==
    RanExact(last) =>
        Response(cart, exact_sum(cart, last.y, last.form_factors).val)
        = Response(cart, exact_pad(cart, last.y, last.form_factors).val)

(***************************************************************************)
(* SphericalBasis                                                          *)
(***************************************************************************)
Sph__init__(N, R) == [N |-> N, R |-> R]

\* r in units of R/N, k in units of pi/(2R)
Sph_init(self) ==
    [N |-> self.N,
     k_max |-> 2 * (self.N - 1) + 1,
     xyz |-> <<[n \in 1..self.N |-> n]>>,
     _pxyz |-> <<[n \in 1..self.N |-> 2 * (n - 1) + 1]>>,
     R |-> self.R]

\* variant: the kernel is truncated at the radius instead of the diameter
Sph_coulomb_kernel_radius(self, k) ==
    LET D == self.R
    IN  Times4Pi(ma_divide_filled((k * D) * (k * D), k * k, <<D * D, 2>>))

\* SphericalBasis.coulomb_kernel(k)
Sph_coulomb_kernel(self, k) ==
    LET D == 2 * self.R
    IN  Times4Pi(ma_divide_filled((k * D) * (k * D), k * k, <<D * D, 2>>))

(***************************************************************************)
(* utils.dst / utils.idst                                                  *)
(*                                                                         *)
(* An array is a multiple num/den of a base array to which sine transforms *)
(* are applied along some axes: pend[a] is 1 when a type 3 transform along *)
(* axis a is outstanding, -1 for a type 2 transform.  A type 2 transform   *)
(* of a type 3 transform (or the reverse) along an axis of length n is 2n  *)
(* times the identity.                                                     *)
(***************************************************************************)
Array(shape, cplx) ==
    Ret(shape, [den |-> 1,
                cplx |-> cplx,
                part |-> "all",
                num |-> 1,
                pend |-> [a \in DOMAIN shape |-> 0]])

\* sp.fftpack.dst(x, type=type, axis=axis)
fftpack_dst(x, type, axis) ==
    LET s == Len(x.shape)
        a == IF axis < 0 THEN s + axis + 1 ELSE axis + 1
        step == IF type = 3 THEN 1 ELSE -1
    IN  IF a \notin 1..s THEN Raise("IndexError")
        ELSE IF x.val.pend[a] = -step
        THEN Ret(x.shape, [x.val EXCEPT !.pend[a] = 0,
                                        !.num = @ * 2 * x.shape[a]])
        ELSE Ret(x.shape, [x.val EXCEPT !.pend[a] = @ + step])

\* x.real, x.imag and re + 1j*im
Part(x, part) == Ret(x.shape, [x.val EXCEPT !.cplx = FALSE, !.part = part])

Complex(re, im) ==
    IF re.exc # "" THEN re
    ELSE IF im.exc # "" THEN im
    ELSE Ret(re.shape, [re.val EXCEPT !.cplx = TRUE, !.part = "all"])

dst(f, axis) ==
    IF f.val.cplx
    THEN Complex(fftpack_dst(Part(f, "re"), 3, axis),
                 fftpack_dst(Part(f, "im"), 3, axis))
    ELSE fftpack_dst(f, 3, axis)

idst(F, axis) ==
    LET N == F.shape[Len(F.shape)]
        res == IF F.val.cplx
               THEN Complex(fftpack_dst(Part(F, "re"), 2, axis),
                            fftpack_dst(Part(F, "im"), 2, axis))
               ELSE fftpack_dst(F, 2, axis)
    IN  IF res.exc # "" THEN res
        ELSE Ret(res.shape, [res.val EXCEPT !.den = @ * 2 * N])

(***************************************************************************)
(* Direct use of the kernels and of the functions of utils.py              *)
(***************************************************************************)
\* momenta at which a kernel is evaluated, in arbitrary units
Momenta == 0..2

\* shapes and axis arguments of the arrays handed to dst and idst
Shapes == {<<2>>, <<3>>, <<2, 3>>, <<3, 3>>, <<3, 2>>, <<2, 2, 3>>}

Axes == -2..1

UtilCall(op, args, r) ==
    /\ last' = [ret |-> r, obj |-> "utils", op |-> op, args |-> args]
    /\ UNCHANGED <<cyl, watch, cart, th, flags>>

Util_get_xyz ==
    \E n \in 1..MaxN, symmetric_lattice \in BOOLEAN :
        UtilCall("get_xyz", [n |-> n, symmetric_lattice |-> symmetric_lattice],
                 Ret(<<n>>, get_xyz(n, symmetric_lattice)))

\* idst(dst(f, axis=axis), axis=axis)
Util_idst_dst ==
    \E shape \in Shapes, cplx \in BOOLEAN, axis \in Axes :
        LET f == Array(shape, cplx)
            F == dst(f, axis)
        IN  UtilCall("idst_dst", [f |-> f, axis |-> axis],
                     IF F.exc # "" THEN F ELSE idst(F, axis))

Sph_call_coulomb_kernel ==
    \E N \in 1..MaxN, R \in 1..2, k \in Momenta :
        LET self == Sph_init(Sph__init__(N, R))
        IN  /\ last' = [self |-> self,
                        k |-> k,
                        ret |-> Sph_coulomb_kernel(self, k),
                        obj |-> "sph",
                        op |-> "coulomb_kernel"]
            /\ UNCHANGED <<cyl, watch, cart, th, flags>>

Cart_coulomb_kernel ==
    \E k \in Momenta :
        CartCall("coulomb_kernel", Ret(<<>>, <<>>), <<>>, <<(<<"k", k>>)>>,
                 [self |-> cart, ret |-> Ret(<<>>, Per_coulomb_kernel(cart, k))])

NextUtil ==
    \/ Util_get_xyz
    \/ Util_idst_dst
    \/ Sph_call_coulomb_kernel
    \/ Cart_coulomb_kernel
    \/ Cart_convolve_coulomb_exact

SpecUtil == InitCart /\ [][NextUtil]_vars

\* the kernel value v is pi^p * n/d
IsValue(v, p, n, d) ==
    /\ v.p = p
    /\ v.n * d = n * v.d
    /\ v.c = -1
    /\ v.q = 1

\* the kernel value v is 4*pi*osc/k2, osc being 1 - cos(sqrt(c)), or 1
IsFormula(v, c, k2) == v = [n |-> 4,
                            p |-> 1,
                            q |-> k2,
                            c |-> c,
                            d |-> 1,
                            ff |-> v.ff]

\* the square of the cell diagonal
Diag2(self) == SeqSum([i \in DOMAIN self.Lxyz |-> self.Lxyz[i] * self.Lxyz[i]])

\* the three kernels at the momenta of the last call: at zero momentum the
\* truncated kernels have the value pi^p * (scale * D^2)/2, the periodic one
\* 0; elsewhere they are the unmasked formula
KernelValues(p, scale) ==
    /\ (last.obj = "sph" /\ last.op = "coulomb_kernel") =>
          LET D == 2 * last.self.R
          IN  IF last.k = 0 THEN IsValue(last.ret, p, scale * D * D, 2)
              ELSE IsFormula(last.ret, (last.k * D) * (last.k * D),
                             last.k * last.k)
    /\ (last.obj = "cart" /\ last.op = "coulomb_kernel") =>
          LET k == last.kw[1][2]
          IN  IF k = 0 THEN last.ret.val.n = 0
              ELSE IsFormula(last.ret.val, -1, k * k)
    /\ RanExact(last) =>
          \A term \in Terms(cart, last.ret.val) :
              LET k2 == SumK2(cart, term.k)
              IN  IF k2 = 0 THEN IsValue(term.C, p, scale * Diag2(cart), 2)
                  ELSE IsFormula(term.C, Diag2(cart) * k2, k2)

\* C13 (as stated): at zero momentum coulomb_kernel returns 0 for the
\* PeriodicBasis and D^2/2 for the truncated kernels, D = 2R for the
\* SphericalBasis and D the cell diagonal for the CartesianBasis; at every
\* other momentum the value is the unmasked formula
C13_ZeroMomentumLimit == KernelValues(0, 1)

\* C13 (amended): at zero momentum the truncated kernels return 4*pi*D^2/2,
\* the limit of 4*pi*(1 - cos(D*k))/k^2, and the periodic kernel returns 0;
\* at every other momentum the value is the unmasked formula; the
\* CartesianBasis kernel carries the form factors of the call
C13_ZeroMomentumIs4PiLimit ==
    /\ KernelValues(1, 4)
    /\ RanExact(last) =>
          \A term \in Terms(cart, last.ret.val) : term.C.ff = last.form_factors

C13_Witness ==
    /\ last.obj = "sph"
    /\ last.op = "coulomb_kernel"
    /\ last.k = 0
    /\ last.self.R = 2
    /\ last.ret.n * 2 = 4 * 16 * last.ret.d

\* C15: idst(dst(f, axis=a), axis=a) equals f for every real or complex
\* array f of any shape and every axis a the functions accept
C15_SineRoundTrip ==
    (last.obj = "utils" /\ last.op = "idst_dst" /\ last.ret.exc = "") =>
        /\ last.ret.shape = last.args.f.shape
        /\ last.ret.val.cplx = last.args.f.val.cplx
        /\ last.ret.val.pend = last.args.f.val.pend
        /\ last.ret.val.num * last.args.f.val.den
           = last.ret.val.den * last.args.f.val.num

\* the points x are symmetric under x -> -x
Symmetric(x) == \A i \in DOMAIN x : \E j \in DOMAIN x : x[j] = -x[i]

\* the origin is one of the points x
HasOrigin(x) == \E i \in DOMAIN x : x[i] = 0

\* n points spaced by l/n (2, in units of l/(2n)), the origin among them
\* unless the lattice is symmetric; a symmetric lattice is symmetric under
\* x -> -x and does not hold the origin
Lattice(x, n, symmetric_lattice) ==
    /\ Len(x) = n
    /\ \A i \in 1..(n - 1) : x[i + 1] - x[i] = 2
    /\ ~symmetric_lattice => HasOrigin(x)
    /\ symmetric_lattice => Symmetric(x) /\ ~HasOrigin(x)

\* C16: for every point count N >= 1, get_xyz (hence the abscissa of the
\* bases) returns N points spaced by L/N, with the origin a lattice point
\* when symmetric_lattice is false, and a lattice symmetric under x -> -x
\* without the origin when it is true
C16_LatticeOrigin ==
    (last.obj = "utils" /\ last.op = "get_xyz") =>
        Lattice(last.ret.val, last.args.n, last.args.symmetric_lattice)

(***************************************************************************)
(* Properties of the PeriodicBasis / CartesianBasis operators              *)
(***************************************************************************)
RanLaplacian(c) == c.obj = "cart" /\ c.op = "laplacian"

\* the frequency index of the j-th point of np.fft.fftfreq for n points:
\* 0, 1, ..., then the negative frequencies, -n/2 being the first of them
\* when n is even
FreqIndex(n, j) == IF 2 * (j - 1) < n THEN j - 1 ELSE j - 1 - n

\* -factor * sum of k_i^2, k_i = 2*pi*FreqIndex/L_i, at the trailing indices
\* of t, in the units of SumP2; exponentiated when exp is set
Multiplier(self, kw, t) ==
    LET d == Len(self.Nxyz)
        lead == Len(t) - d
        k2 == SeqSum([i \in 1..d |->
                        (Q * FreqIndex(self.Nxyz[i], t[lead + i]) * PerL(self, i))
                        * (Q * FreqIndex(self.Nxyz[i], t[lead + i]) * PerL(self, i))])
        factor == kw[1][2]
    IN  IF kw[2][2] THEN Exp(-factor * k2) ELSE Num(-factor * k2, 0)

\* C14: for every lattice momentum k0 of the grid, the Nyquist index of an
\* even axis included, laplacian applied to the plane wave exp(i*k0*x)
\* returns that plane wave times -factor*|k0|^2, or times the exponential
\* of it when exp is set
C14_PlaneWaveEigenfunction ==
    \A t0 \in Idx(cart.Nxyz) :
        (RanLaplacian(last) /\ last.y = PlaneWave(cart, t0)) =>
            /\ last.ret.exc = ""
            /\ last.ret.shape = last.y.shape
            /\ last.ret.val =
                  [t \in Idx(cart.Nxyz) |->
                      IF t = t0 THEN Multiplier(cart, last.kw, t0)
                      ELSE Num(0, 0)]

\* the plane wave of Nyquist momentum along the first axis of the 4 x 3
\* grid of extents 1 x 2, propagated with exp(5*laplacian)
C14_Witness ==
    /\ RanLaplacian(last)
    /\ cart.Nxyz = <<4, 3>>
    /\ last.y = PlaneWave(cart, <<3, 2>>)
    /\ last.kw = <<(<<"factor", 5>>), (<<"exp", TRUE>>)>>
    /\ last.ret.val[<<3, 2>>] = Num(1, -5 * 68)

\* the shape with its last d entries multiplied by 3, or divided by 3
Tripled(shape, d) ==
    [i \in DOMAIN shape |-> IF i > Len(shape) - d THEN 3 * shape[i]
                            ELSE shape[i]]

Thirded(shape, d) ==
    [i \in DOMAIN shape |-> IF i > Len(shape) - d THEN shape[i] \div 3
                            ELSE shape[i]]

\* the last d axes of an array with s axes
TrailingAxes(s, d) == [i \in 1..d |-> s - d + i]

\* C17: for a field with s >= d axes every operator transforms exactly the
\* last d axes and returns an array of the shape of the field; 'pad' pads
\* only the last d axes to 3 times their length, and the fast variant
\* reduces only the last d axes to floor(N/3)
C17_LeadingAxesUntouched ==
    LET d == Len(cart.Nxyz)
        y == last.y
        s == Len(y.shape)
        v == last.ret.val
    IN  (last.obj = "cart" /\ last.ret.exc = ""
         /\ last.op \in {"laplacian", "convolve", "convolve_coulomb",
                         "convolve_coulomb_exact", "convolve_coulomb_fast"}) =>
            /\ last.ret.shape = y.shape
            /\ last.op = "laplacian" =>
                  v = [t \in Idx(y.shape) |->
                          Mul(Multiplier(cart, last.kw, t), y.val[t])]
            /\ (last.op # "laplacian" /\ v.alg \in {"periodic", "sum"}) =>
                  v.axes = TrailingAxes(s, d)
            /\ (last.op # "laplacian" /\ v.alg = "pad") =>
                  /\ v.axes = TrailingAxes(s, d)
                  /\ v.padded = Tripled(y.shape, d)
            /\ (last.op # "laplacian" /\ v.alg = "fast") =>
                  /\ v.low.src.to = Thirded(y.shape, d)
                  /\ v.low.axes = TrailingAxes(s, d)
                  /\ v.low.padded = Tripled(Thirded(y.shape, d), d)

\* the fast convolution of a field with 2 components on the 4 x 3 grid
C17_Witness ==
    /\ last.obj = "cart"
    /\ last.op = "convolve_coulomb_fast"
    /\ last.y.shape = <<2, 4, 3>>
    /\ last.ret.exc = ""
    /\ last.ret.shape = <<2, 4, 3>>
    /\ last.ret.val.low.src.to = <<2, 1, 1>>
    /\ last.ret.val.low.padded = <<2, 3, 3>>

(***************************************************************************)
(* Further properties of the cache under sequential use                    *)
(***************************************************************************)
\* the values apply_exp_K returns when it applies the operator pair K_data
Applied(c, K_data) == ApplyPair(cyl, K_data, c.y).val

\* C18: every call apply_exp_K(y, f) applies an operator pair whose cache
\* key is close to f: on a hit the last entry the lookup matches, on a miss
\* the entry just computed for f, which is the last entry of the cache once
\* the eviction is done
C18_AppliesMatchingEntry ==
    /\ IsHit(last) =>
          LET found == {i \in 1..Len(last.pre) :
                           allclose(Key(last), last.pre[i][1])}
              entry == last.pre[Max(found)]
          IN  /\ found # {}
              /\ last.ind = Max(found) - 1
              /\ cyl._K_data = last.pre
              /\ last.ret.exc = ""
              /\ last.ret.val = Applied(last, entry[2])
    /\ IsMiss(last) =>
          LET entry == cyl._K_data[Len(cyl._K_data)]
          IN  /\ \A i \in 1..Len(last.pre) :
                    ~allclose(Key(last), last.pre[i][1])
              /\ entry = <<Key(last), K_data_of(cyl, Key(last))>>
              /\ last.ret.exc = ""
              /\ last.ret.val = Applied(last, entry[2])

\* a hit on a cache holding 99999 and then 100010, both close to the
\* argument 99999: the pair of the later entry is the one applied
C18_Witness ==
    /\ IsHit(last)
    /\ Key(last) = 99999
    /\ Len(last.pre) >= 2
    /\ last.pre[Len(last.pre) - 1][1] = 99999
    /\ last.pre[Len(last.pre)][1] = 100010
    /\ last.ind = Len(last.pre) - 1
    /\ last.ret.val = Applied(last, K_data_of(cyl, 100010))

\* C19: apply_exp_K, and laplacian with exp=True, return an array with the
\* shape and the number of axes of the field, with and without a twist
C19_ShapePreserved ==
    (CacheOp(last) /\ last.ret.exc = "") => last.ret.shape = last.y.shape

\* C20: no cached key is close, by the test of the lookup with the newer
\* key as its first argument, to a key inserted before it
C20_NoDuplicateEntries ==
    \A i, j \in 1..Len(cyl._K_data) :
        i < j => ~allclose(cyl._K_data[j][1], cyl._K_data[i][1])

\* 99999 and 100010 are both cached: the older key is close to the newer
\* one only when the older key is the first argument of the test
C20_Witness ==
    /\ Len(cyl._K_data) = 3
    /\ \E i, j \in 1..3 :
          /\ i < j
          /\ cyl._K_data[i][1] = 99999
          /\ cyl._K_data[j][1] = 100010
          /\ allclose(cyl._K_data[i][1], cyl._K_data[j][1])
    /\ IsMiss(last)
    /\ last.npopped = 1

====
